---- MODULE Spec2Model ----
(***************************************************************************)
(* Survey-generation pipeline of cosmosearch:                              *)
(*   api/apps/paper_search_app.py          (request handlers)              *)
(*   api/db/services/paper_search_service.py (PaperSearchService)          *)
(*                                                                         *)
(* State: the PaperSurveyRecord table, the Task table, the Redis queues,   *)
(* the handlers in flight (submission, cancellation), the job executor     *)
(* and the response of the request that finished last; the                 *)
(* PaperSearchRecord table and the search request in flight; and, for the  *)
(* service functions studied on their own (extract_keywords,               *)
(* _generate_word_document), the call and its result.                      *)
(*                                                                         *)
(* Encodings: progress is kept in percent (0.0 -> 0, 1.0 -> 100, the       *)
(* cancellation sentinel -1 -> -1); uuids are drawn from a counter; text   *)
(* is a sequence of tokens; timestamps are left out.                       *)
(***************************************************************************)
EXTENDS Integers, Sequences, FiniteSets, TLC

(* ------------------------------ bounds -------------------------------- *)
MaxSubmits == 1
MaxPapers == 2
MaxRedeliver == 1
MaxDownloads == 1
MaxPriority == 1
MaxQuestionLen == 5
MaxContentLen == 3
MaxSearches == 1
MaxChunks == 3
MaxRequestedKeywords == 13
MaxInFlight == 2

(* ------------------------- program constants -------------------------- *)
\* paper_survey always enqueues with priority=0
SurveyPriority == 0
\* the id of a row that does not reference a Task (task_id IS NULL)
NullId == 0
\* the search_record_id a client sends with its survey request
ClientSearchRecordId == 1

Users == {"u1", "u2"}
Tenants == {"t1", "t2"}
\* a requester: current_user.id and the tenant the tenant lookup returned
Requesters == [user : Users, tenant : Tenants]

\* the pair that submits surveys; every requester may issue the other requests
Submitters == { [user |-> "u1", tenant |-> "t1"] }

Priorities == 0..MaxPriority
Uuids == 1..(2 * MaxSubmits)
\* a submission draws the survey id and then the task id, so the survey ids
\* are the odd uuids; these are the ids clients send in their requests
SurveyIds == { id \in Uuids : id % 2 = 1 }

EmptyContent == << >>
Word == [kind |-> "text", n |-> 0]
Cite(k) == [kind |-> "cite", n |-> k]
\* texts the chat model may return for the synthesis call
SurveyTexts == { <<Word, Cite(1)>>, <<Cite(2), Word>> }

\* papers a client may submit: one without and one with cached full content
Papers == { [title |-> "A", abstract |-> "a", full_content |-> ""],
            [title |-> "B", abstract |-> "b", full_content |-> "cached"] }
PaperLists == UNION { [1..n -> Papers] : n \in 0..MaxPapers }

NoRow == [exists |-> FALSE]
NoData == [none |-> TRUE]

VARIABLES
    rows,       \* PaperSurveyRecord table: id -> row or NoRow
    tasks,      \* Task table: id -> row or NoRow
    queue,      \* Redis queues: priority -> sequence of task messages
    delivered,  \* messages a worker has received (the queue may hand one out again)
    redelivered,\* number of duplicate deliveries so far
    nextUuid,   \* get_uuid()
    sub,        \* the paper_survey request in flight
    can,        \* the cancel_survey request in flight
    wk,         \* the executor (generate_survey) and its locals
    downloads,  \* number of PaperSurveyDownloadRecord rows
    resp,       \* response of the request that finished last
    srecs,      \* PaperSearchRecord table: id -> row or NoRow
    srch,       \* the paper_search / paper_search_with_keywords request in flight
    chatlog,    \* the model calls the current run of generate_survey has made
    del,        \* the delete requests between their SELECT and their DELETE
    doc,        \* the paper_survey_doc request in flight
    prog,       \* the get_survey_progress request between its two SELECTs
    call        \* a service function applied to given arguments, and its result

vars == <<rows, tasks, queue, delivered, redelivered, nextUuid, sub, can, wk,
          downloads, resp, srecs, srch, chatlog, del, doc, prog, call>>

\* what the survey handlers and the executor never write
searchVars == <<srecs, srch, call>>

RowExists(id) == id \in DOMAIN rows /\ rows[id] # NoRow
TaskExists(id) == id \in DOMAIN tasks /\ tasks[id] # NoRow

Idle == [pc |-> "idle"]

\* the requests that have run their first statement and not yet their last:
\* the model follows at most MaxInFlight of them at a time
InFlight ==
    (IF sub.pc = "idle" THEN 0 ELSE 1) + (IF can.pc = "idle" THEN 0 ELSE 1)
    + (IF doc.pc = "idle" THEN 0 ELSE 1) + (IF prog.pc = "idle" THEN 0 ELSE 1)
    + Len(del)
NoResp == [op |-> "none"]
NoCall == [fn |-> "none"]

\* the empty store, the empty queues and no survey request in flight
InitStore ==
    /\ rows = [id \in Uuids |-> NoRow]
    /\ tasks = [id \in Uuids |-> NoRow]
    /\ queue = [p \in Priorities |-> << >>]
    /\ delivered = {}
    /\ redelivered = 0
    /\ nextUuid = 1
    /\ sub = Idle
    /\ can = Idle
    /\ wk = Idle
    /\ downloads = 0
    /\ resp = NoResp
    /\ srecs = [id \in Uuids |-> NoRow]
    /\ chatlog = << >>
    /\ del = << >>
    /\ doc = Idle
    /\ prog = Idle

Init ==
    /\ InitStore
    /\ srch = Idle
    /\ call = NoCall

(* ------------------------- the store (peewee) ------------------------- *)
\* PaperSurveyRecord.create(**survey_record): the columns the dict does not
\* give take their defaults
NewRow(rec) ==
    [exists |-> TRUE,
     id |-> rec.id,
     tenant_id |-> rec.tenant_id,
     user_id |-> rec.user_id,
     search_record_id |-> rec.search_record_id,
     survey_content |-> rec.survey_content,
     survey_title |-> rec.survey_title,
     status |-> rec.status,
     progress |-> rec.progress,
     progress_msg |-> rec.progress_msg,
     task_id |-> NullId,
     survey_papers |-> << >>]

(* ----------------------- submission: paper_survey --------------------- *)
\* the survey_record dict built by paper_survey
survey_record(id, req) ==
    [id |-> id,
     tenant_id |-> req.tenant,
     user_id |-> req.user,
     search_record_id |-> ClientSearchRecordId,
     survey_content |-> EmptyContent,
     survey_title |-> "title",
     status |-> "pending",
     progress |-> 0,
     progress_msg |-> "waiting"]

\* paper_survey up to and including PaperSurveyRecord.create
paper_survey(req, papers) ==
    /\ sub.pc = "idle"
    /\ InFlight < MaxInFlight
    /\ nextUuid + 1 <= 2 * MaxSubmits
    /\ LET rec == survey_record(nextUuid, req) IN
        /\ rows' = [rows EXCEPT ![rec.id] = NewRow(rec)]
        /\ sub' = [pc |-> "insert_task", req |-> req, survey_record |-> rec,
                   papers |-> papers, priority |-> SurveyPriority]
    /\ nextUuid' = nextUuid + 1
    /\ UNCHANGED <<prog, del, doc, chatlog, searchVars, tasks, queue, delivered, redelivered, can, wk, downloads, resp>>

\* the task dict built by queue_survey_task
task_record(id, rec, papers, priority) ==
    [exists |-> TRUE,
     id |-> id,
     doc_id |-> rec.id,
     from_page |-> 0,
     to_page |-> Len(papers),
     task_type |-> "paper_survey",
     priority |-> priority,
     progress |-> 0,
     progress_msg |-> "created"]

\* queue_survey_task steps 1-2: build the Task and bulk_insert_into_db
queue_survey_task_insert ==
    /\ sub.pc = "insert_task"
    /\ LET task == task_record(nextUuid, sub.survey_record, sub.papers, sub.priority) IN
        /\ tasks' = [tasks EXCEPT ![task.id] = task]
        /\ sub' = [sub EXCEPT !.pc = "update_record"] @@ [task |-> task]
    /\ nextUuid' = nextUuid + 1
    /\ UNCHANGED <<prog, del, doc, chatlog, searchVars, rows, queue, delivered, redelivered, can, wk, downloads, resp>>

\* the fields queue_survey_task step 3 writes on the row
SubmitUpdateFields(row, task_id) ==
    [row EXCEPT !.task_id = task_id, !.status = "pending", !.progress = 0,
                !.progress_msg = "waiting"]

\* queue_survey_task step 3: UPDATE ... WHERE id = survey id
queue_survey_task_update ==
    /\ sub.pc = "update_record"
    /\ LET id == sub.survey_record.id IN
        rows' = IF RowExists(id)
                THEN [rows EXCEPT ![id] = SubmitUpdateFields(rows[id], sub.task.id)]
                ELSE rows
    /\ sub' = [sub EXCEPT !.pc = "enqueue"]
    /\ UNCHANGED <<prog, del, doc, chatlog, searchVars, tasks, queue, delivered, redelivered, nextUuid, can, wk, downloads, resp>>

\* the task message of queue_survey_task step 4
task_message(task, rec, papers) ==
    [id |-> task.id,
     doc_id |-> task.doc_id,
     from_page |-> task.from_page,
     to_page |-> task.to_page,
     task_type |-> task.task_type,
     priority |-> task.priority,
     progress |-> task.progress,
     survey_record |-> rec,
     papers |-> papers,
     tenant_id |-> rec.tenant_id]

\* variant: the message goes to the queue of another priority
QueueOf_Other(priority) == MaxPriority - priority

\* the queue the message goes to: get_svr_queue_name(priority)
QueueOf(priority) == priority

\* step 5 succeeded: REDIS_CONN.queue_product returned True; paper_survey
\* answers with the survey id and the task id
queue_survey_task_enqueued ==
    /\ sub.pc = "enqueue"
    /\ LET msg == task_message(sub.task, sub.survey_record, sub.papers)
           q == QueueOf(sub.priority) IN
        queue' = [queue EXCEPT ![q] = Append(@, msg)]
    /\ resp' = [op |-> "paper_survey", req |-> sub.req, sid |-> sub.survey_record.id,
                kind |-> "ok",
                data |-> [survey_id |-> sub.survey_record.id, task_id |-> sub.task.id,
                          status |-> "pending", progress |-> 0]]
    /\ sub' = Idle
    /\ UNCHANGED <<prog, del, doc, chatlog, searchVars, rows, tasks, delivered, redelivered, nextUuid, can, wk, downloads>>

\* step 5 failed: queue_product returned False, queue_survey_task raises and
\* paper_survey answers server_error_response
queue_survey_task_enqueue_failed ==
    /\ sub.pc = "enqueue"
    /\ resp' = [op |-> "paper_survey", req |-> sub.req, sid |-> sub.survey_record.id,
                kind |-> "server_error", data |-> NoData]
    /\ sub' = Idle
    /\ UNCHANGED <<prog, del, doc, chatlog, searchVars, rows, tasks, queue, delivered, redelivered, nextUuid, can, wk, downloads>>

Submit ==
    \/ \E req \in Submitters, papers \in PaperLists : paper_survey(req, papers)
    \/ queue_survey_task_insert
    \/ queue_survey_task_update
    \/ queue_survey_task_enqueued
    \/ queue_survey_task_enqueue_failed

(* ---------------------- cancellation: cancel_survey ------------------- *)
\* the rows the query of cancel_survey and get_survey_progress matches:
\* (PaperSurveyRecord.id == survey_id) & (PaperSurveyRecord.user_id == current_user.id)
OwnedByUser(sid, req) == RowExists(sid) /\ rows[sid].user_id = req.user

\* variant: a finished job is taken for a cancellable one
Cancellable_AlsoCompleted(status) == status \in {"pending", "processing", "completed"}

Cancellable(status) == status \in {"pending", "processing"}

\* PaperSurveyRecord.get raised DoesNotExist
cancel_survey_not_found(req, sid) ==
    /\ can.pc = "idle"
    /\ ~OwnedByUser(sid, req)
    /\ resp' = [op |-> "cancel_survey", req |-> req, sid |-> sid,
                kind |-> "not_found", data |-> NoData]
    /\ UNCHANGED <<prog, del, doc, chatlog, searchVars, rows, tasks, queue, delivered, redelivered, nextUuid, sub, can, wk,
                   downloads>>

\* the row is there and its status is neither pending nor processing
cancel_survey_refused(req, sid) ==
    /\ can.pc = "idle"
    /\ OwnedByUser(sid, req)
    /\ ~Cancellable(rows[sid].status)
    /\ resp' = [op |-> "cancel_survey", req |-> req, sid |-> sid,
                kind |-> "error", data |-> [status |-> rows[sid].status]]
    /\ UNCHANGED <<prog, del, doc, chatlog, searchVars, rows, tasks, queue, delivered, redelivered, nextUuid, sub, can, wk,
                   downloads>>

\* the row is there and cancellable: the handler goes on with what it read
cancel_survey_get(req, sid) ==
    /\ can.pc = "idle"
    /\ InFlight < MaxInFlight
    /\ OwnedByUser(sid, req)
    /\ Cancellable(rows[sid].status)
    /\ can' = [pc |-> IF rows[sid].task_id # NullId THEN "task" ELSE "write",
               req |-> req, sid |-> sid, task_id |-> rows[sid].task_id]
    /\ UNCHANGED <<prog, del, doc, chatlog, searchVars, rows, tasks, queue, delivered, redelivered, nextUuid, sub, wk,
                   downloads, resp>>

\* TaskService.update_progress(survey.task_id, {"progress": -1, ...})
cancel_survey_task ==
    /\ can.pc = "task"
    /\ tasks' = IF TaskExists(can.task_id)
                THEN [tasks EXCEPT ![can.task_id] =
                        [@ EXCEPT !.progress = -1, !.progress_msg = "cancelled"]]
                ELSE tasks
    /\ can' = [can EXCEPT !.pc = "write"]
    /\ UNCHANGED <<prog, del, doc, chatlog, searchVars, rows, queue, delivered, redelivered, nextUuid, sub, wk, downloads, resp>>

\* the fields the UPDATE of cancel_survey writes
CancelFields(row) ==
    [row EXCEPT !.status = "cancelled", !.progress = -1, !.progress_msg = "cancelled"]

\* PaperSurveyRecord.update(status="cancelled", ...).where(id == survey_id)
cancel_survey_write ==
    /\ can.pc = "write"
    /\ rows' = IF RowExists(can.sid)
               THEN [rows EXCEPT ![can.sid] = CancelFields(@)]
               ELSE rows
    /\ resp' = [op |-> "cancel_survey", req |-> can.req, sid |-> can.sid,
                kind |-> "ok", data |-> NoData]
    /\ can' = Idle
    /\ UNCHANGED <<prog, del, doc, chatlog, searchVars, tasks, queue, delivered, redelivered, nextUuid, sub, wk, downloads>>

Cancel ==
    \/ \E req \in Requesters, sid \in SurveyIds : cancel_survey_not_found(req, sid)
    \/ \E req \in Requesters, sid \in SurveyIds : cancel_survey_refused(req, sid)
    \/ \E req \in Requesters, sid \in SurveyIds : cancel_survey_get(req, sid)
    \/ cancel_survey_task
    \/ cancel_survey_write

(* ------------------------ delete_survey_record ------------------------ *)
\* the rows the query of delete_survey_record matches: id, user_id and tenant_id
OwnedByPair(sid, req) ==
    /\ RowExists(sid)
    /\ rows[sid].user_id = req.user
    /\ rows[sid].tenant_id = req.tenant

\* delete_instance(): DELETE ... WHERE id = the id of the object that was read
DeletedRow(sid) == [rows EXCEPT ![sid] = NoRow]

\* the sequence without its i-th element
RemoveAt(seq, i) == SubSeq(seq, 1, i - 1) \o SubSeq(seq, i + 1, Len(seq))

\* survey = PaperSurveyRecord.get(id, user_id, tenant_id): the row is there
delete_survey_record_get(req, sid) ==
    /\ OwnedByPair(sid, req)
    /\ InFlight < MaxInFlight
    /\ del' = Append(del, [req |-> req, sid |-> sid])
    /\ UNCHANGED <<prog, doc, chatlog, searchVars, rows, tasks, queue, delivered, redelivered, nextUuid,
                   sub, can, wk, downloads, resp>>

\* survey.delete_instance() of a request that has read its row, whatever has
\* become of the row since; the service returns True, the handler answers
delete_survey_record(req, sid) ==
    /\ \E i \in 1..Len(del) :
        /\ del[i] = [req |-> req, sid |-> sid]
        /\ del' = RemoveAt(del, i)
    /\ rows' = DeletedRow(sid)
    /\ resp' = [op |-> "delete_survey_record", req |-> req, sid |-> sid,
                kind |-> "ok", data |-> NoData]
    /\ UNCHANGED <<prog, doc, chatlog, searchVars, tasks, queue, delivered, redelivered, nextUuid, sub,
                   can, wk, downloads>>

\* the get raised: the service returns False, the handler answers with an error
delete_survey_record_failed(req, sid) ==
    /\ ~OwnedByPair(sid, req)
    /\ resp' = [op |-> "delete_survey_record", req |-> req, sid |-> sid,
                kind |-> "error", data |-> NoData]
    /\ UNCHANGED <<prog, del, doc, chatlog, searchVars, rows, tasks, queue, delivered, redelivered,
                   nextUuid, sub, can, wk, downloads>>

Delete ==
    \/ \E req \in Requesters, sid \in SurveyIds : delete_survey_record_get(req, sid)
    \/ \E req \in Requesters, sid \in SurveyIds : delete_survey_record(req, sid)
    \/ \E req \in Requesters, sid \in SurveyIds : delete_survey_record_failed(req, sid)

(* ------------------ rendering: _generate_word_document ---------------- *)
\* the citation numbers a text may carry: 0 and one past the longest list too
CiteNumbers == 0..(MaxPapers + 1)
\* the line break, and the prefixes "# ", "## ", "### " and "- " that make a
\* line a heading or a bullet when they open it
Newline == [kind |-> "newline", n |-> 0]
HeadingLevels == 1..3
HeadingMark(level) == [kind |-> "heading", n |-> level]
BulletMark == [kind |-> "bullet", n |-> 0]
ContentTokens ==
    {Word, Newline, BulletMark} \cup { Cite(k) : k \in CiteNumbers }
        \cup { HeadingMark(l) : l \in HeadingLevels }
Contents == UNION { [1..n -> ContentTokens] : n \in 0..MaxContentLen }

\* cited_indices: the numbers of all ##n$$ tokens of the content
CitedIndices(content) ==
    { content[i].n : i \in { j \in 1..Len(content) : content[j].kind = "cite" } }

\* sorted(cited_indices)
RECURSIVE Sorted(_)
Sorted(S) ==
    IF S = {} THEN << >>
    ELSE LET least == CHOOSE x \in S : \A y \in S : x <= y IN
         <<least>> \o Sorted(S \ {least})

\* papers[paper_idx] of a Python list: a negative index counts from the end
PaperAt(papers, paper_idx) ==
    IF paper_idx >= 0 THEN papers[paper_idx + 1]
    ELSE papers[Len(papers) + paper_idx + 1]

\* paper.get("title", default)
UnknownTitle == "unknown"
TitleOf(paper) == IF "title" \in DOMAIN paper THEN paper.title ELSE UnknownTitle

\* variant: only the upper end of the range is tested
InRange_NoLowerBound(paper_idx, papers) == paper_idx < Len(papers)

\* if 0 <= paper_idx < len(papers)
InRange(paper_idx, papers) == 0 <= paper_idx /\ paper_idx < Len(papers)

\* the reference paragraphs added for the sorted indices
RECURSIVE ReferenceEntries(_, _)
ReferenceEntries(sorted_indices, papers) ==
    IF sorted_indices = << >> THEN << >>
    ELSE LET idx == Head(sorted_indices) IN
         (IF InRange(idx - 1, papers)
          THEN << [index |-> idx, title |-> TitleOf(PaperAt(papers, idx - 1))] >>
          ELSE << >>)
         \o ReferenceEntries(Tail(sorted_indices), papers)

\* the reference section: present if papers and cited_indices
References(content, papers) ==
    IF papers # << >> /\ CitedIndices(content) # {}
    THEN [section |-> TRUE,
          entries |-> ReferenceEntries(Sorted(CitedIndices(content)), papers)]
    ELSE [section |-> FALSE, entries |-> << >>]

\* _add_paragraph_with_citations: every ##n$$ becomes a superscript [n] run
Marker(k) == [kind |-> "marker", n |-> k]
ParagraphRuns(text) ==
    [i \in 1..Len(text) |-> IF text[i].kind = "cite" THEN Marker(text[i].n) ELSE text[i]]

\* content.split("\n")
RECURSIVE SplitLines(_, _)
SplitLines(content, line) ==
    IF content = << >> THEN <<line>>
    ELSE IF Head(content) = Newline THEN <<line>> \o SplitLines(Tail(content), << >>)
    ELSE SplitLines(Tail(content), Append(line, Head(content)))

\* one non-empty line of the loop: a heading or a bullet is added with the
\* text after its prefix as it stands, any other line goes through
\* _add_paragraph_with_citations; a prefix with nothing after it loses its
\* blank to strip() and is an ordinary line
RenderLine(line) ==
    IF Len(line) > 1 /\ Head(line).kind = "heading"
    THEN [style |-> "Heading", level |-> Head(line).n, runs |-> Tail(line)]
    ELSE IF Len(line) > 1 /\ Head(line).kind = "bullet"
    THEN [style |-> "List Bullet", level |-> 0, runs |-> Tail(line)]
    ELSE [style |-> "Normal", level |-> 0, runs |-> ParagraphRuns(line)]

\* the loop over the lines: empty lines are skipped
RECURSIVE RenderLines(_)
RenderLines(lines) ==
    IF lines = << >> THEN << >>
    ELSE (IF Head(lines) = << >> THEN << >> ELSE <<RenderLine(Head(lines))>>)
         \o RenderLines(Tail(lines))

\* _generate_word_document: heading, body paragraphs and reference section
generate_word_document(content, title, papers) ==
    [kind |-> "docx", title |-> title, body |-> RenderLines(SplitLines(content, << >>)),
     references |-> References(content, papers)]

RenderCalls ==
    [fn : {"generate_word_document"}, content : Contents, title : {"title"},
     papers : PaperLists, result : {NoData}]

\* _generate_word_document applied to the arguments of the call
generate_word_document_call ==
    /\ call.fn = "generate_word_document"
    /\ call.result = NoData
    /\ call' = [call EXCEPT
                !.result = generate_word_document(call.content, call.title, call.papers)]
    /\ UNCHANGED <<prog, del, doc, chatlog, rows, tasks, queue, delivered, redelivered, nextUuid, sub, can, wk,
                   downloads, resp, srecs, srch>>

RenderInit ==
    /\ InitStore
    /\ srch = Idle
    /\ call \in RenderCalls

\* _generate_word_document on every content and paper list of the bounds
RenderSpec == RenderInit /\ [][generate_word_document_call]_vars

(* -------------------------------- reads -------------------------------- *)
\* what PaperSearchService.get_survey returns: PaperSurveyRecord.get(id == survey_id)
SurveyDetails(sid) ==
    IF RowExists(sid)
    THEN [id |-> rows[sid].id, tenant_id |-> rows[sid].tenant_id,
          user_id |-> rows[sid].user_id,
          search_record_id |-> rows[sid].search_record_id,
          survey_content |-> rows[sid].survey_content,
          survey_title |-> rows[sid].survey_title,
          status |-> rows[sid].status]
    ELSE NoData

\* GET /paper_survey/<survey_id>
get_survey(req, sid) ==
    /\ resp' = [op |-> "get_survey", req |-> req, sid |-> sid,
                kind |-> IF SurveyDetails(sid) # NoData THEN "ok" ELSE "not_found",
                data |-> SurveyDetails(sid)]
    /\ UNCHANGED <<prog, del, doc, chatlog, searchVars, rows, tasks, queue, delivered, redelivered, nextUuid, sub, can, wk,
                   downloads>>

\* PaperSearchRecord.get_or_none(PaperSearchRecord.id == id)
SearchRecordExists(id) == id \in DOMAIN srecs /\ srecs[id] # NoRow

\* the paper list get_survey_progress and generate_survey_doc resolve the
\* citations with: survey_papers if the row has it, else the search_results
\* of the search record the row names, else the empty list
SurveyPapers(row) ==
    IF row.survey_papers # << >> THEN row.survey_papers
    ELSE IF SearchRecordExists(row.search_record_id)
         THEN srecs[row.search_record_id].search_results
         ELSE << >>

\* the progress_data dict of get_survey_progress
ProgressData(row) ==
    [survey_id |-> row.id, status |-> row.status, progress |-> row.progress,
     progress_msg |-> row.progress_msg, survey_title |-> row.survey_title,
     survey_content |-> IF row.status = "completed" THEN row.survey_content
                        ELSE EmptyContent,
     papers |-> IF row.status = "completed" THEN SurveyPapers(row) ELSE << >>]

\* a completed row without survey_papers: the handler goes on to read the
\* search record before it answers
NeedsSearchRecord(row) == row.status = "completed" /\ row.survey_papers = << >>

\* GET /paper_survey/<survey_id>/progress answered after the SELECT of the
\* row: DoesNotExist, or a row that needs no second SELECT
get_survey_progress(req, sid) ==
    /\ OwnedByUser(sid, req) => ~NeedsSearchRecord(rows[sid])
    /\ resp' = [op |-> "get_survey_progress", req |-> req, sid |-> sid,
                kind |-> IF OwnedByUser(sid, req) THEN "ok" ELSE "not_found",
                data |-> IF OwnedByUser(sid, req) THEN ProgressData(rows[sid])
                         ELSE NoData]
    /\ UNCHANGED <<prog, del, doc, chatlog, searchVars, rows, tasks, queue, delivered, redelivered,
                   nextUuid, sub, can, wk, downloads>>

\* the SELECT of a completed row without survey_papers: the handler keeps
\* the row it read
get_survey_progress_get(req, sid) ==
    /\ prog.pc = "idle"
    /\ InFlight < MaxInFlight
    /\ OwnedByUser(sid, req)
    /\ NeedsSearchRecord(rows[sid])
    /\ prog' = [pc |-> "papers", req |-> req, sid |-> sid, survey |-> rows[sid]]
    /\ UNCHANGED <<del, doc, chatlog, searchVars, rows, tasks, queue, delivered, redelivered,
                   nextUuid, sub, can, wk, downloads, resp>>

\* PaperSearchRecord.get_or_none(...) and the answer, from the row read before
get_survey_progress_papers ==
    /\ prog.pc = "papers"
    /\ prog' = Idle
    /\ resp' = [op |-> "get_survey_progress", req |-> prog.req, sid |-> prog.sid,
                kind |-> "ok", data |-> ProgressData(prog.survey)]
    /\ UNCHANGED <<del, doc, chatlog, searchVars, rows, tasks, queue, delivered, redelivered,
                   nextUuid, sub, can, wk, downloads>>

\* what generate_survey_doc renders: PaperSurveyRecord.get(id == survey_record_id)
\* what generate_survey_doc renders from the survey row it has read
SurveyDoc(row) ==
    [survey_content |-> row.survey_content,
     survey_title |-> row.survey_title,
     papers |-> SurveyPapers(row),
     document |-> generate_word_document(row.survey_content, row.survey_title,
                                         SurveyPapers(row))]

\* POST /paper_survey_doc, first statement: the download record is created
paper_survey_doc_insert(req, sid) ==
    /\ doc.pc = "idle"
    /\ InFlight < MaxInFlight
    /\ downloads < MaxDownloads
    /\ downloads' = downloads + 1
    /\ doc' = [pc |-> "select", req |-> req, sid |-> sid]
    /\ UNCHANGED <<prog, del, chatlog, searchVars, rows, tasks, queue, delivered, redelivered, nextUuid,
                   sub, can, wk, resp>>

\* survey = PaperSurveyRecord.get(id): DoesNotExist ends the request in
\* server_error_response
paper_survey_doc_select ==
    /\ doc.pc = "select"
    /\ IF RowExists(doc.sid)
       THEN /\ doc' = [pc |-> "papers", req |-> doc.req, sid |-> doc.sid,
                       survey |-> rows[doc.sid]]
            /\ resp' = resp
       ELSE /\ doc' = Idle
            /\ resp' = [op |-> "paper_survey_doc", req |-> doc.req, sid |-> doc.sid,
                        kind |-> "server_error", data |-> NoData]
    /\ UNCHANGED <<prog, del, chatlog, searchVars, rows, tasks, queue, delivered, redelivered, nextUuid,
                   sub, can, wk, downloads>>

\* the paper list (survey_papers, else the search record read now), the
\* rendering and the answer
paper_survey_doc_render ==
    /\ doc.pc = "papers"
    /\ doc' = Idle
    /\ resp' = [op |-> "paper_survey_doc", req |-> doc.req, sid |-> doc.sid,
                kind |-> "ok", data |-> SurveyDoc(doc.survey)]
    /\ UNCHANGED <<prog, del, chatlog, searchVars, rows, tasks, queue, delivered, redelivered, nextUuid,
                   sub, can, wk, downloads>>

Read ==
    \/ \E req \in Requesters, sid \in SurveyIds : get_survey(req, sid)
    \/ \E req \in Requesters, sid \in SurveyIds : get_survey_progress(req, sid)
    \/ \E req \in Requesters, sid \in SurveyIds : paper_survey_doc_insert(req, sid)
    \/ paper_survey_doc_select
    \/ paper_survey_doc_render

\* the progress request of a completed job, with its two round trips
ReadCompleted ==
    \/ \E req \in Requesters, sid \in SurveyIds : get_survey_progress_get(req, sid)
    \/ get_survey_progress_papers

(* ------------------------ the worker and the job ---------------------- *)
\* the queue a worker reads next: lower priority tiers are drained first
NonEmptyQueues == { p \in Priorities : queue[p] # << >> }
FirstQueue == CHOOSE p \in NonEmptyQueues : \A q \in NonEmptyQueues : p <= q

\* what the worker holds once it has a message: the message, and the locals
\* generate_survey(survey_record, papers) will start from
StartJob(msg) ==
    [pc |-> "pickup", msg |-> msg, i |-> 1, updated_papers |-> << >>,
     paper_summaries |-> << >>]

\* a worker takes the message at the head of the queue
dequeue ==
    /\ wk.pc = "idle"
    /\ NonEmptyQueues # {}
    /\ LET msg == Head(queue[FirstQueue]) IN
        /\ queue' = [queue EXCEPT ![FirstQueue] = Tail(@)]
        /\ delivered' = delivered \cup {msg}
        /\ wk' = StartJob(msg)
    /\ chatlog' = << >>
    /\ UNCHANGED <<prog, del, doc, searchVars, rows, tasks, redelivered, nextUuid, sub, can, downloads, resp>>

\* at-least-once delivery: a message already handed out is handed out again
redeliver ==
    /\ wk.pc = "idle"
    /\ redelivered < MaxRedeliver
    /\ \E msg \in delivered : wk' = StartJob(msg)
    /\ redelivered' = redelivered + 1
    /\ chatlog' = << >>
    /\ UNCHANGED <<prog, del, doc, searchVars, rows, tasks, queue, delivered, nextUuid, sub, can, downloads, resp>>

\* variant: only a cancelled job is discarded at pickup
Discardable_CancelledOnly(status) == status = "cancelled"

\* the persisted states in which the worker does no work on a message: the
\* job was cancelled before pickup, or the message is a duplicate of a job
\* already completed
Discardable(status) == status \in {"cancelled", "completed"}

\* the worker reads the persisted state of the job of the message it holds
\* and finds it cancelled or completed: the message is discarded
pickup_discard ==
    /\ wk.pc = "pickup"
    /\ RowExists(wk.msg.survey_record.id)
    /\ Discardable(rows[wk.msg.survey_record.id].status)
    /\ wk' = Idle
    /\ UNCHANGED <<prog, del, doc, chatlog, searchVars, rows, tasks, queue, delivered, redelivered, nextUuid, sub, can,
                   downloads, resp>>

\* the same read finds any other state, or no row: the worker calls
\* generate_survey(survey_record, papers) with the payload of the message
pickup_start ==
    /\ wk.pc = "pickup"
    /\ ~(/\ RowExists(wk.msg.survey_record.id)
         /\ Discardable(rows[wk.msg.survey_record.id].status))
    /\ wk' = [wk EXCEPT !.pc = "create"]
    /\ UNCHANGED <<prog, del, doc, chatlog, searchVars, rows, tasks, queue, delivered, redelivered, nextUuid, sub, can,
                   downloads, resp>>

\* where generate_survey goes after the row is created, and after each loop
AfterCreate(papers) == IF Len(papers) = 0 THEN "synth" ELSE "fetch"

\* survey_obj = PaperSurveyRecord.create(**survey_record): the INSERT of a
\* fresh id; it stands before the try block and nothing reads the row first
generate_survey_create ==
    /\ wk.pc = "create"
    /\ ~RowExists(wk.msg.survey_record.id)
    /\ rows' = [rows EXCEPT ![wk.msg.survey_record.id] = NewRow(wk.msg.survey_record)]
    /\ wk' = [wk EXCEPT !.pc = AfterCreate(wk.msg.papers)]
    /\ UNCHANGED <<prog, del, doc, chatlog, searchVars, tasks, queue, delivered, redelivered, nextUuid, sub, can, downloads, resp>>

\* the same INSERT when a row of this id is there. The table's definition is
\* not part of these sources; with id as its key the INSERT raises, and the
\* statement standing before the try, the exception leaves generate_survey
\* with nothing written
generate_survey_create_raises ==
    /\ wk.pc = "create"
    /\ RowExists(wk.msg.survey_record.id)
    /\ wk' = [wk EXCEPT !.pc = "raised"]
    /\ UNCHANGED <<prog, del, doc, chatlog, searchVars, rows, tasks, queue, delivered, redelivered, nextUuid, sub, can,
                   downloads, resp>>

\* an exception that leaves generate_survey is caught once at the top of the
\* worker loop and recorded on the job as failed; the job is not tried again
worker_records_failed ==
    /\ wk.pc = "raised"
    /\ rows' = IF RowExists(wk.msg.survey_record.id)
               THEN [rows EXCEPT ![wk.msg.survey_record.id].status = "failed"]
               ELSE rows
    /\ wk' = Idle
    /\ UNCHANGED <<prog, del, doc, chatlog, searchVars, tasks, queue, delivered, redelivered, nextUuid, sub, can,
                   downloads, resp>>

\* one pass of the first loop: a paper without full_content gets what
\* _get_full_document_content returns ("" when it fails or finds nothing)
FetchedPaper(paper, fetched) ==
    IF paper.full_content = "" /\ fetched # ""
    THEN [paper EXCEPT !.full_content = fetched]
    ELSE paper

FetchResults(paper) == IF paper.full_content = "" THEN {"", "doc"} ELSE {""}

generate_survey_fetch ==
    /\ wk.pc = "fetch"
    /\ \E fetched \in FetchResults(wk.msg.papers[wk.i]) :
        wk' = [wk EXCEPT
                !.updated_papers = Append(@, FetchedPaper(wk.msg.papers[wk.i], fetched)),
                !.i = IF wk.i = Len(wk.msg.papers) THEN 1 ELSE wk.i + 1,
                !.pc = IF wk.i = Len(wk.msg.papers) THEN "summary" ELSE "fetch"]
    /\ UNCHANGED <<prog, del, doc, chatlog, searchVars, rows, tasks, queue, delivered, redelivered, nextUuid, sub, can,
                   downloads, resp>>

\* the entries of the log: generate_paper_summary called for a paper, and
\* the synthesis chat call with its prompt
SummaryCall(paper) == [stage |-> "summary", title |-> paper.title]
SynthesisCall(prompt) == [stage |-> "synthesis", prompt |-> prompt]

\* generate_paper_summary: the text of the chat model, or on any exception
\* the title-and-abstract fallback
PaperSummary(paper, chat_ok) ==
    IF chat_ok
    THEN [kind |-> "llm", title |-> paper.title,
          content |-> IF paper.full_content # "" THEN paper.full_content
                      ELSE paper.abstract]
    ELSE [kind |-> "fallback", title |-> paper.title, abstract |-> paper.abstract]

\* variant: a failing summary call ends the job as failed
generate_survey_summary_aborts ==
    /\ wk.pc = "summary"
    /\ \E chat_ok \in BOOLEAN :
        IF chat_ok
        THEN /\ wk' = [wk EXCEPT
                        !.paper_summaries =
                            Append(@, [title |-> wk.updated_papers[wk.i].title,
                                       summary |-> PaperSummary(wk.updated_papers[wk.i], TRUE)]),
                        !.i = IF wk.i = Len(wk.updated_papers) THEN 1 ELSE wk.i + 1,
                        !.pc = IF wk.i = Len(wk.updated_papers) THEN "synth" ELSE "summary"]
             /\ rows' = rows
        ELSE /\ wk' = Idle
             /\ rows' = IF RowExists(wk.msg.survey_record.id)
                        THEN [rows EXCEPT ![wk.msg.survey_record.id].status = "failed"]
                        ELSE rows
    /\ chatlog' = Append(chatlog, SummaryCall(wk.updated_papers[wk.i]))
    /\ UNCHANGED <<prog, del, doc, searchVars, tasks, queue, delivered, redelivered, nextUuid, sub, can,
                   downloads, resp>>

\* one pass of the second loop
generate_survey_summary ==
    /\ wk.pc = "summary"
    /\ \E chat_ok \in BOOLEAN :
        wk' = [wk EXCEPT
                !.paper_summaries =
                    Append(@, [title |-> wk.updated_papers[wk.i].title,
                               summary |-> PaperSummary(wk.updated_papers[wk.i], chat_ok)]),
                !.i = IF wk.i = Len(wk.updated_papers) THEN 1 ELSE wk.i + 1,
                !.pc = IF wk.i = Len(wk.updated_papers) THEN "synth" ELSE "summary"]
    /\ chatlog' = Append(chatlog, SummaryCall(wk.updated_papers[wk.i]))
    /\ UNCHANGED <<prog, del, doc, searchVars, rows, tasks, queue, delivered, redelivered, nextUuid, sub, can,
                   downloads, resp>>

\* _build_survey_prompt_from_summaries: brief i and the line "##i$$ - title"
\* for the i-th summary, counted from 1
SurveyPrompt(paper_summaries) ==
    [i \in 1..Len(paper_summaries) |->
        [index |-> i, title |-> paper_summaries[i].title,
         summary |-> paper_summaries[i].summary]]

\* the fields the UPDATE after the synthesis call writes
CompletedFields(row, survey_content) ==
    [row EXCEPT !.survey_content = survey_content, !.status = "completed"]

\* the prompt is built, the chat model constructed and chat_mdl.chat called:
\* the call returns the text of the survey, which generate_survey holds in
\* its local survey_content until the UPDATE
generate_survey_synthesis ==
    /\ wk.pc = "synth"
    /\ \E survey_content \in SurveyTexts :
        wk' = [pc |-> "update", msg |-> wk.msg, i |-> wk.i,
               updated_papers |-> wk.updated_papers,
               paper_summaries |-> wk.paper_summaries,
               survey_content |-> survey_content]
    /\ chatlog' = Append(chatlog, SynthesisCall(SurveyPrompt(wk.paper_summaries)))
    /\ UNCHANGED <<prog, del, doc, searchVars, rows, tasks, queue, delivered, redelivered, nextUuid, sub, can, downloads, resp>>

\* variant: when the synthesis call raises it is made a second time
generate_survey_synthesis_retries ==
    /\ wk.pc = "synth"
    /\ Len(chatlog) <= Len(wk.paper_summaries) + 1
    /\ wk' = wk
    /\ chatlog' = Append(chatlog, SynthesisCall(SurveyPrompt(wk.paper_summaries)))
    /\ UNCHANGED <<prog, del, doc, searchVars, rows, tasks, queue, delivered, redelivered, nextUuid, sub, can, downloads, resp>>

\* the prompt building, the chat model's construction (no call is made then)
\* or the chat call itself raised: control is in the except branch
generate_survey_synthesis_raises ==
    /\ wk.pc = "synth"
    /\ wk' = [wk EXCEPT !.pc = "except"]
    /\ \E called \in BOOLEAN :
        chatlog' = IF called
                   THEN Append(chatlog, SynthesisCall(SurveyPrompt(wk.paper_summaries)))
                   ELSE chatlog
    /\ UNCHANGED <<prog, del, doc, searchVars, rows, tasks, queue, delivered, redelivered, nextUuid, sub, can, downloads, resp>>

\* the UPDATE after the chat call, WHERE id = survey id, and the return
generate_survey_completed ==
    /\ wk.pc = "update"
    /\ LET id == wk.msg.survey_record.id IN
        rows' = IF RowExists(id)
                THEN [rows EXCEPT ![id] = CompletedFields(@, wk.survey_content)]
                ELSE rows
    /\ wk' = Idle
    /\ UNCHANGED <<prog, del, doc, chatlog, searchVars, tasks, queue, delivered, redelivered, nextUuid, sub, can, downloads, resp>>

\* variant: the except branch forgets its UPDATE
FailedFields_Forgotten(row) == row

\* variant: the except branch also writes the -1 sentinel
FailedFields_Sentinel(row) == [row EXCEPT !.status = "failed", !.progress = -1]

\* the fields the UPDATE of the except branch writes
FailedFields(row) == [row EXCEPT !.status = "failed"]

\* the except branch marks the row failed and raises again: the exception
\* leaves generate_survey
generate_survey_failed ==
    /\ wk.pc = "except"
    /\ LET id == wk.msg.survey_record.id IN
        rows' = IF RowExists(id)
                THEN [rows EXCEPT ![id] = FailedFields(@)]
                ELSE rows
    /\ wk' = [wk EXCEPT !.pc = "raised"]
    /\ UNCHANGED <<prog, del, doc, chatlog, searchVars, tasks, queue, delivered, redelivered, nextUuid, sub, can, downloads, resp>>

\* the worker loop around generate_survey
Worker ==
    \/ dequeue
    \/ redeliver
    \/ pickup_discard
    \/ pickup_start
    \/ worker_records_failed

Execute ==
    \/ generate_survey_create
    \/ generate_survey_create_raises
    \/ generate_survey_fetch
    \/ generate_survey_summary
    \/ generate_survey_synthesis
    \/ generate_survey_synthesis_raises
    \/ generate_survey_completed
    \/ generate_survey_failed

Next == Submit \/ Cancel \/ Delete \/ Read \/ ReadCompleted \/ Worker \/ Execute

Spec == Init /\ [][Next]_vars

\* submissions and reads, with no cancel or delete request and no worker
SubmitSpec == Init /\ [][Submit \/ Read]_vars

\* the requests and the executor that write the job: the reads leave rows,
\* tasks, queues and the executor as they are and no guard looks at an answer
JobSpec == Init /\ [][Submit \/ Cancel \/ Delete \/ Worker \/ Execute]_vars

\* the worker loop when every message is delivered once
WorkerOnce ==
    \/ dequeue
    \/ pickup_start
    \/ worker_records_failed

\* the reads, with the submissions, deletes and executor runs that give them
\* jobs in every state to read; no message is delivered twice
ReadSpec == Init /\ [][Submit \/ Delete \/ WorkerOnce \/ Execute \/ Read \/ ReadCompleted]_vars

(* ------------------- keyword extraction: extract_keywords ------------- *)
\* text is a sequence of characters
Space == " "
Chars == {"x", Space}
Strings(n) == UNION { [1..m -> Chars] : m \in 0..n }
Questions == Strings(MaxQuestionLen)

\* str.split(): the maximal runs of non-whitespace characters, in order
RECURSIVE SplitFrom(_, _, _)
SplitFrom(s, i, word) ==
    IF i > Len(s)
    THEN IF word = << >> THEN << >> ELSE <<word>>
    ELSE IF s[i] = Space
         THEN IF word = << >>
              THEN SplitFrom(s, i + 1, << >>)
              ELSE <<word>> \o SplitFrom(s, i + 1, << >>)
         ELSE SplitFrom(s, i + 1, Append(word, s[i]))

Split(s) == SplitFrom(s, 1, << >>)

\* the largest keyword count a caller may ask for, and the default
KeywordsNumLimit == 12
DefaultKeywordsNum == 5

\* the keywords_num values a caller may send (as a query_num, 0 stands for a
\* value Python takes for false: 0 or None)
KeywordCounts == (0 - 1)..MaxRequestedKeywords
\* the query_num of a call: the one the caller supplies, or the default of
\* the parameter (and of req.get in the handlers) when the caller supplies none
SuppliedQueryNums == { << >>, <<0>>, <<3>> }
DefaultQueryNum == 5
QueryNumOf(supplied) == IF supplied = << >> THEN DefaultQueryNum ELSE supplied[1]
QueryNums == { QueryNumOf(supplied) : supplied \in SuppliedQueryNums }

\* variant: a count of 1 is taken as it is
EffectiveKeywordsNum_FromOne(keywords_num) ==
    IF KeywordsNumLimit >= keywords_num /\ keywords_num >= 1
    THEN keywords_num ELSE DefaultKeywordsNum

\* keywords_num = keywords_num if 12 >= keywords_num > 1 else 5
EffectiveKeywordsNum(keywords_num) ==
    IF KeywordsNumLimit >= keywords_num /\ keywords_num > 1
    THEN keywords_num ELSE DefaultKeywordsNum

\* query_num = query_num if query_num else keywords_num
EffectiveQueryNum(query_num, keywords_num) ==
    IF query_num # 0 THEN query_num ELSE keywords_num

\* the two numbers the prompt text carries
ExtractPrompt(keywords_num, query_num) ==
    [keywords_num |-> EffectiveKeywordsNum(keywords_num),
     query_num |-> EffectiveQueryNum(query_num, EffectiveKeywordsNum(keywords_num))]

BundleFields == {"keyword_en", "keyword_cn", "searchquery_en", "searchquery_cn",
                 "time_range"}

\* the item a model answer carries for a field
ItemOf(f) ==
    CASE f = "keyword_en" -> <<"x">>
      [] f = "keyword_cn" -> <<"x", "x">>
      [] f = "searchquery_en" -> <<"x", Space, "x">>
      [] f = "searchquery_cn" -> <<"x", "x", Space, "x">>
      [] f = "time_range" -> <<"x", "x", "x", "x">>

\* the pieces between the commas of a "field": [...] fragment, as they stand
\* in the text: with blanks and quotes around them, or only blanks
Quote == "'"
RawItems == { <<"x">>, <<Space, Quote, "x", Quote>>, <<Space>> }
RawLists == { <<a>> : a \in RawItems } \cup { <<a, b>> : a, b \in RawItems }

\* what the chat model may do: raise (LLMBundle or chat), answer with a JSON
\* object holding some of the fields, answer with JSON that is no object
\* (a list, a number, a string, null), or answer with text that is no JSON
\* and holds "field": [...] fragments for some fields
ModelOutcomes ==
    { [kind |-> "raise"] }
    \cup { [kind |-> "not_object"] }
    \cup { [kind |-> "object", value |-> [f \in S |-> <<ItemOf(f)>>]] :
            S \in SUBSET BundleFields }
    \cup { [kind |-> "text", fragments |-> [f \in S |-> raw]] :
            S \in { {}, {"keyword_en"}, BundleFields }, raw \in RawLists }

\* s.strip(chars)
RECURSIVE Strip(_, _)
Strip(s, chars) ==
    IF s = << >> THEN s
    ELSE IF Head(s) \in chars THEN Strip(Tail(s), chars)
    ELSE IF s[Len(s)] \in chars THEN Strip(SubSeq(s, 1, Len(s) - 1), chars)
    ELSE s

\* parse_list_str: item.strip().strip("\"'") for every piece, empty ones dropped
RECURSIVE parse_list_str(_)
parse_list_str(raw) ==
    IF raw = << >> THEN << >>
    ELSE LET item == Strip(Strip(Head(raw), {Space}), {Quote}) IN
         (IF item = << >> THEN << >> ELSE <<item>>) \o parse_list_str(Tail(raw))

\* result.get(...) on a value that is not a dict raises AttributeError, which
\* the except json.JSONDecodeError of _parse_keyword_response lets through
ParseRaises(outcome) == outcome.kind = "not_object"

\* _parse_keyword_response for a response it returns a bundle for
parse_keyword_response(response) ==
    IF response.kind = "object"
    THEN [f \in BundleFields |->
            IF f \in DOMAIN response.value THEN response.value[f] ELSE << >>]
    ELSE [f \in BundleFields |->
            IF f \in DOMAIN response.fragments
            THEN parse_list_str(response.fragments[f]) ELSE << >>]

\* words[:keywords_num] if len(words) >= keywords_num else words
FirstWords(words, keywords_num) ==
    IF Len(words) >= keywords_num THEN SubSeq(words, 1, keywords_num) ELSE words

\* the bundle of the except branch of extract_keywords
Fallback(question, keywords_num) ==
    [keyword_en |-> FirstWords(Split(question), keywords_num),
     keyword_cn |-> FirstWords(Split(question), keywords_num),
     searchquery_en |-> <<question>>,
     searchquery_cn |-> <<question>>,
     time_range |-> << >>]

Raised == [raised |-> TRUE]

\* variant: the try block handles only the failure of the model call
HandledByExtract_ModelCallOnly(outcome) == outcome.kind = "raise"

\* the exceptions the try block of extract_keywords handles (except Exception):
\* those of LLMBundle and chat, and those of _parse_keyword_response
HandledByExtract(outcome) == outcome.kind = "raise" \/ ParseRaises(outcome)

\* PaperSearchService.extract_keywords
extract_keywords(question, keywords_num, query_num, outcome) ==
    IF outcome.kind = "raise" \/ ParseRaises(outcome)
    THEN IF HandledByExtract(outcome)
         THEN Fallback(question, EffectiveKeywordsNum(keywords_num))
         ELSE Raised
    ELSE parse_keyword_response(outcome)

\* _parse_keyword_response on the answer of the model: the bundle, or the
\* fact that it raised
ParseOutcome(outcome) ==
    IF ParseRaises(outcome) THEN Raised ELSE parse_keyword_response(outcome)

ExtractCalls ==
    { [c EXCEPT !.query_num = QueryNumOf(c.supplied_query_num)] :
        c \in [fn : {"extract_keywords"}, question : Questions,
               keywords_num : KeywordCounts, supplied_query_num : SuppliedQueryNums,
               query_num : {DefaultQueryNum}, outcome : ModelOutcomes,
               prompt : {NoData}, parsed : {NoData}, result : {NoData}] }

\* extract_keywords applied to the arguments of the call
extract_keywords_call ==
    /\ call.fn = "extract_keywords"
    /\ call.result = NoData
    /\ call' = [call EXCEPT
                !.prompt = ExtractPrompt(call.keywords_num, call.query_num),
                !.parsed = IF call.outcome.kind = "raise" THEN NoData
                           ELSE ParseOutcome(call.outcome),
                !.result = extract_keywords(call.question, call.keywords_num,
                                            call.query_num, call.outcome)]
    /\ UNCHANGED <<prog, del, doc, chatlog, rows, tasks, queue, delivered, redelivered, nextUuid, sub, can, wk,
                   downloads, resp, srecs, srch>>

ExtractInit ==
    /\ InitStore
    /\ srch = Idle
    /\ call \in ExtractCalls

\* extract_keywords on every question, count and model outcome of the bounds
ExtractSpec == ExtractInit /\ [][extract_keywords_call]_vars

(* ------------- search: paper_search, paper_search_with_keywords ------- *)
\* " ".join(parts)
RECURSIVE Join(_)
Join(parts) ==
    IF parts = << >> THEN << >>
    ELSE IF Len(parts) = 1 THEN parts[1]
    ELSE parts[1] \o <<Space>> \o Join(Tail(parts))

\* the search record dict the handlers build ("keywords": "{}",
\* "search_results": "[]", "result_count": 0); the handlers pass its id on
\* and do not insert it
search_record(id, req, query) ==
    [exists |-> TRUE, id |-> id, tenant_id |-> req.tenant, user_id |-> req.user,
     query |-> query, keywords |-> NoData, search_results |-> << >>,
     result_count |-> 0]

\* cls.model.update(fields).where(cls.model.id == search_record_id).execute()
UpdateSearchRecord(id, fields) ==
    IF SearchRecordExists(id)
    THEN [srecs EXCEPT ![id] =
            [f \in DOMAIN srecs[id] |->
                IF f \in DOMAIN fields THEN fields[f] ELSE srecs[id][f]]]
    ELSE srecs

\* the questions, keyword counts and model outcomes of the search requests
SearchQueries == { <<"x">>, <<"x", Space, "x", "x">> }
SearchKeywordCounts == {1, 3}
SearchModelOutcomes ==
    { o \in ModelOutcomes :
        \/ o.kind \in {"raise", "not_object"}
        \/ o.kind = "object" /\ DOMAIN o.value \in { BundleFields, {"keyword_en"} } }

\* search_query = " ".join(keyword_en + keyword_cn + searchquery_en + searchquery_cn)
SearchQueryOf(keywords_response) ==
    Join(keywords_response.keyword_en \o keywords_response.keyword_cn
         \o keywords_response.searchquery_en \o keywords_response.searchquery_cn)

\* POST /paper_search up to the first UPDATE of search_papers: the record
\* dict gets a fresh id, extract_keywords runs, the keywords are written
paper_search(req, query, keywords_num, query_num) ==
    /\ srch.pc = "idle"
    /\ nextUuid <= MaxSearches
    /\ \E outcome \in SearchModelOutcomes :
        LET rec == search_record(nextUuid, req, query)
            keywords_response == extract_keywords(query, keywords_num, query_num, outcome) IN
        /\ srecs' = UpdateSearchRecord(rec.id, [id |-> rec.id, keywords |-> keywords_response])
        /\ srch' = [pc |-> "retrieve", op |-> "paper_search", req |-> req,
                    search_record |-> rec, query |-> query,
                    search_query |-> SearchQueryOf(keywords_response),
                    keywords |-> keywords_response]
    /\ nextUuid' = nextUuid + 1
    /\ UNCHANGED <<prog, del, doc, chatlog, rows, tasks, queue, delivered, redelivered, sub, can, wk, downloads,
                   resp, call>>

\* the keyword bundle a client sends back, and its marks on the keywords
ClientKeywords == [f \in BundleFields |-> <<ItemOf(f)>>]
SelectionItems ==
    { [type |-> "keyword_en", index |-> 0, selected |-> TRUE],
      [type |-> "keyword_cn", index |-> 0, selected |-> FALSE],
      [type |-> "searchquery_en", index |-> 1, selected |-> TRUE],
      [type |-> "title", index |-> 0, selected |-> TRUE] }
SelectionLists == { << >> } \cup { <<a>> : a \in SelectionItems }
                  \cup { <<a, b>> : a, b \in SelectionItems }

\* search_query_parts: the keywords the selected marks point at
RECURSIVE SelectedParts(_, _)
SelectedParts(all_keywords, selected_keyword_indices) ==
    IF selected_keyword_indices = << >> THEN << >>
    ELSE LET selected == Head(selected_keyword_indices) IN
         (IF /\ selected.selected
             /\ selected.type \in DOMAIN all_keywords
             /\ selected.index < Len(all_keywords[selected.type])
          THEN << all_keywords[selected.type][selected.index + 1] >>
          ELSE << >>)
         \o SelectedParts(all_keywords, Tail(selected_keyword_indices))

\* POST /paper_search_with_keywords up to the first UPDATE of
\* search_papers_with_keywords
paper_search_with_keywords(req, query, all_keywords, selected_keyword_indices) ==
    /\ srch.pc = "idle"
    /\ nextUuid <= MaxSearches
    /\ LET rec == search_record(nextUuid, req, query)
           final_search_query == Join(SelectedParts(all_keywords, selected_keyword_indices))
           keywords == [user_confirmed_query |-> final_search_query] IN
        /\ srecs' = UpdateSearchRecord(rec.id, [id |-> rec.id, keywords |-> keywords])
        /\ srch' = [pc |-> "retrieve", op |-> "paper_search_with_keywords", req |-> req,
                    search_record |-> rec, query |-> query,
                    search_query |-> final_search_query, keywords |-> keywords]
    /\ nextUuid' = nextUuid + 1
    /\ UNCHANGED <<prog, del, doc, chatlog, rows, tasks, queue, delivered, redelivered, sub, can, wk, downloads,
                   resp, call>>

\* the knowledge bases the two KnowledgebaseService queries may return
KbIdLists == { << >>, <<"kb1">> }

\* documents, and what DocumentService.get_by_id does for each: it returns
\* the document, returns (False, None), or raises
DocIds == {"d1", "d2"}
Lookups == [DocIds -> {"found", "missing", "raises"}]

\* the first 500 characters of a chunk's text
AbstractLimit == 500
Abstract(content) ==
    IF Len(content) <= AbstractLimit THEN content ELSE SubSeq(content, 1, AbstractLimit)

\* the chunk of a document at a rank of the retrieval result; its text has
\* as many characters as its rank, the similarity falls with the rank
ChunkAt(doc_id, rank) ==
    [doc_id |-> doc_id, content_with_weight |-> [i \in 1..rank |-> "x"],
     similarity |-> MaxChunks + 1 - rank, kb_id |-> "kb1"]
ChunkLists ==
    UNION { { [i \in 1..n |-> ChunkAt(docs[i], i)] : docs \in [1..n -> DocIds] } :
            n \in 0..MaxChunks }

\* what the retrieval does: the embedding model or retriever.retrieval
\* raises, or ranks come back
Retrievals ==
    { [kind |-> "raise"] } \cup { [kind |-> "ranks", chunks |-> c] : c \in ChunkLists }

\* the paper dict built from a document and its chunk
PaperOf(doc_id, chunk) ==
    [uid |-> doc_id, title |-> doc_id,
     abstract |-> Abstract(chunk.content_with_weight),
     selected |-> TRUE, similarity |-> chunk.similarity,
     doc_id |-> doc_id, kb_id |-> chunk.kb_id]

\* variant: no document counts as processed
AlreadyProcessed_Never(doc_id, processed_docs) == FALSE

\* if doc_id in processed_docs: continue
AlreadyProcessed(doc_id, processed_docs) == doc_id \in processed_docs

\* the loop over ranks["chunks"]: the papers collected, or the fact that
\* get_by_id raised
RECURSIVE ProcessChunks(_, _, _, _)
ProcessChunks(chunks, lookup, processed_docs, papers) ==
    IF chunks = << >> THEN [raised |-> FALSE, papers |-> papers]
    ELSE LET chunk == Head(chunks) IN
         IF AlreadyProcessed(chunk.doc_id, processed_docs)
         THEN ProcessChunks(Tail(chunks), lookup, processed_docs, papers)
         ELSE IF lookup[chunk.doc_id] = "raises"
              THEN [raised |-> TRUE, papers |-> papers]
              ELSE ProcessChunks(Tail(chunks), lookup,
                                 processed_docs \cup {chunk.doc_id},
                                 IF lookup[chunk.doc_id] = "found"
                                 THEN Append(papers, PaperOf(chunk.doc_id, chunk))
                                 ELSE papers)

\* papers after the if kb_ids / try / except block
RetrievedPapers(kb_ids, retrieval, lookup) ==
    IF kb_ids = << >> THEN << >>
    ELSE IF retrieval.kind = "raise" THEN << >>
    ELSE IF ProcessChunks(retrieval.chunks, lookup, {}, << >>).raised THEN << >>
    ELSE ProcessChunks(retrieval.chunks, lookup, {}, << >>).papers

\* the rest of search_papers / search_papers_with_keywords: knowledge bases,
\* retrieval, the loop, the second UPDATE and the answer
search_papers_retrieve(kb_ids, retrieval, lookup) ==
    /\ srch.pc = "retrieve"
    /\ LET papers == RetrievedPapers(kb_ids, retrieval, lookup)
           id == srch.search_record.id IN
        /\ srecs' = UpdateSearchRecord(id, [search_results |-> papers,
                                            result_count |-> Len(papers)])
        /\ resp' = [op |-> srch.op, req |-> srch.req, sid |-> id, kind |-> "ok",
                    data |-> [search_record_id |-> id, papers |-> papers,
                              keywords |-> srch.keywords]]
    /\ srch' = Idle
    /\ UNCHANGED <<prog, del, doc, chatlog, rows, tasks, queue, delivered, redelivered, nextUuid, sub, can, wk,
                   downloads, call>>

Search ==
    \/ \E req \in Requesters, query \in SearchQueries, keywords_num \in SearchKeywordCounts,
          query_num \in QueryNums : paper_search(req, query, keywords_num, query_num)
    \/ \E req \in Requesters, query \in SearchQueries, selected \in SelectionLists :
          paper_search_with_keywords(req, query, ClientKeywords, selected)
    \/ \E kb_ids \in KbIdLists, retrieval \in Retrievals, lookup \in Lookups :
          search_papers_retrieve(kb_ids, retrieval, lookup)

\* the search handlers alone
SearchSpec == Init /\ [][Search]_vars

(* ============================== claims ================================ *)
Status(id) == rows[id].status
Owner(id) == [user |-> rows[id].user_id, tenant |-> rows[id].tenant_id]
\* no worker has received a message of this job
NotPickedUp(id) == \A m \in delivered : m.survey_record.id # id
\* the messages of a job on the queues
Queued(q, id) == { k \in 1..Len(q) : q[k].survey_record.id = id }

\* C1: a job cancelled before any worker has picked it up stays cancelled
\* (until it is deleted), also while its submission is still running
C1_CancelBeforePickupStaysCancelled ==
    [][\A id \in SurveyIds :
        (RowExists(id) /\ Status(id) = "cancelled" /\ NotPickedUp(id) /\ NotPickedUp(id)'
            /\ RowExists(id)')
        => Status(id)' = "cancelled"]_vars

\* C2: once the persisted state is cancelled no later write changes the state
\* or gives the job content
C2_CancelledIsFinal ==
    [][\A id \in SurveyIds :
        (RowExists(id) /\ Status(id) = "cancelled" /\ RowExists(id)')
        => /\ Status(id)' = "cancelled"
           /\ rows[id].survey_content' = EmptyContent]_vars

\* C3: a cancel request goes on to write only when the row it read is the
\* user's and pending or processing, and its write sets cancelled and -1; on
\* a completed, failed or cancelled row it answers with an error and changes
\* neither the survey rows nor the tasks
C3_CancelOnlyWhilePendingOrProcessing ==
    [][/\ (can.pc = "idle" /\ can'.pc # "idle")
            => /\ RowExists(can'.sid)
               /\ rows[can'.sid].user_id = can'.req.user
               /\ Status(can'.sid) \in {"pending", "processing"}
       /\ \A sid \in SurveyIds :
            (cancel_survey_write /\ can.sid = sid /\ RowExists(sid))
            => /\ rows'[sid].status = "cancelled"
               /\ rows'[sid].progress = -1
       /\ \A req \in Requesters, sid \in SurveyIds :
            (/\ can.pc = "idle"
             /\ RowExists(sid)
             /\ rows[sid].user_id = req.user
             /\ Status(sid) \in {"completed", "failed", "cancelled"}
             /\ (\/ cancel_survey_refused(req, sid)
                 \/ cancel_survey_get(req, sid)
                 \/ cancel_survey_not_found(req, sid)))
            => /\ resp'.op = "cancel_survey"
               /\ resp'.kind = "error"
               /\ rows' = rows
               /\ tasks' = tasks
               /\ can' = can]_vars

\* a cancel request was refused on a completed job
C3_Witness ==
    /\ resp.op = "cancel_survey"
    /\ resp.kind = "error"
    /\ resp.data.status = "completed"
    /\ RowExists(resp.sid)
    /\ Status(resp.sid) = "completed"

\* C4: after a submission that failed to enqueue there is neither a pending
\* row nor a Task row of that job
C4_FailedSubmissionLeavesNoPendingJob ==
    (resp.op = "paper_survey" /\ resp.kind = "server_error")
    => /\ ~(RowExists(resp.sid) /\ Status(resp.sid) = "pending")
       /\ \A t \in Uuids : ~(TaskExists(t) /\ tasks[t].doc_id = resp.sid)

\* C5: the step that ends a submission with success leaves one row of the new
\* id, pending, progress 0, no content; one message of the job, on the queue
\* of the requested priority and on no other, carrying the job record and the
\* submitted papers in order; and row, Task and answer agree on the task id
C5_SuccessfulSubmission ==
    [][\A id \in SurveyIds, t \in Uuids :
        (queue_survey_task_enqueued /\ id = sub.survey_record.id /\ t = sub.task.id)
        => /\ rows'[id] # NoRow
           /\ rows'[id].status = "pending"
           /\ rows'[id].progress = 0
           /\ rows'[id].survey_content = EmptyContent
           /\ rows'[id].user_id = sub.req.user
           /\ rows'[id].tenant_id = sub.req.tenant
           /\ rows'[id].task_id = t
           /\ \A p \in Priorities :
                Cardinality(Queued(queue'[p], id)) = IF p = sub.priority THEN 1 ELSE 0
           /\ \A k \in Queued(queue'[sub.priority], id) :
                /\ queue'[sub.priority][k].survey_record.id = id
                /\ queue'[sub.priority][k].survey_record.user_id = sub.req.user
                /\ queue'[sub.priority][k].survey_record.tenant_id = sub.req.tenant
                /\ queue'[sub.priority][k].survey_record.status = "pending"
                /\ queue'[sub.priority][k].papers = sub.papers
                /\ queue'[sub.priority][k].id = t
           /\ tasks'[t] # NoRow
           /\ tasks'[t].id = t
           /\ tasks'[t].doc_id = id
           /\ resp'.kind = "ok"
           /\ resp'.data.survey_id = id
           /\ resp'.data.task_id = t]_vars

\* a submission of two different papers has succeeded
C5_Witness ==
    /\ resp.op = "paper_survey"
    /\ resp.kind = "ok"
    /\ \E k \in 1..Len(queue[SurveyPriority]) :
        /\ queue[SurveyPriority][k].survey_record.id = resp.sid
        /\ Len(queue[SurveyPriority][k].papers) = 2
        /\ queue[SurveyPriority][k].papers[1] # queue[SurveyPriority][k].papers[2]

\* C6: when the synthesis call raises, the row (if it is still there) ends
\* failed with empty content, the executor stops and nothing is put back on
\* a queue or handed out again: the raise takes generate_survey to its except
\* branch without a write, the except branch marks the row failed and lets
\* the exception leave generate_survey, and the worker that catches it
\* records the failure and goes idle
C6_SynthesisFailure ==
    [][/\ generate_survey_synthesis_raises
            => /\ rows' = rows
               /\ wk'.pc = "except"
               /\ queue' = queue
               /\ delivered' = delivered
               /\ redelivered' = redelivered
       /\ wk.pc = "except" /\ wk' # wk => generate_survey_failed
       /\ \A id \in SurveyIds :
            (generate_survey_failed /\ id = wk.msg.survey_record.id)
            => /\ rows'[id] # NoRow =>
                    /\ rows'[id].status = "failed"
                    /\ rows'[id].survey_content = EmptyContent
               /\ wk'.pc = "raised"
               /\ queue' = queue
               /\ delivered' = delivered
               /\ redelivered' = redelivered
       /\ \A id \in SurveyIds :
            (wk.pc = "raised" /\ wk' # wk /\ id = wk.msg.survey_record.id)
            => /\ rows'[id] # NoRow =>
                    /\ rows'[id].status = "failed"
                    /\ rows'[id].survey_content = EmptyContent
               /\ wk'.pc = "idle"
               /\ queue' = queue
               /\ delivered' = delivered
               /\ redelivered' = redelivered]_vars

\* a job has failed after its summaries were made: the except branch has
\* marked the row and the exception has left generate_survey
C6_Witness ==
    \E id \in SurveyIds :
        /\ RowExists(id)
        /\ Status(id) = "failed"
        /\ rows[id].survey_content = EmptyContent
        /\ wk.pc = "raised"
        /\ wk.msg.survey_record.id = id
        /\ Len(wk.paper_summaries) > 0

\* C7: a job becomes completed only from processing, and then has progress
\* 1.0 and the synthesized text as content
C7_PendingProcessingCompleted ==
    [][\A id \in SurveyIds :
        (/\ RowExists(id)'
         /\ Status(id)' = "completed"
         /\ (RowExists(id) => Status(id) # "completed"))
        => /\ RowExists(id)
           /\ Status(id) = "processing"
           /\ rows[id].progress' = 100
           /\ rows[id].survey_content' \in SurveyTexts]_vars

\* C8: the worker reads the persisted state of a job before any work on its
\* message begins, and a message whose job is then completed (a duplicate
\* delivery) or cancelled (cancelled before pickup) is a no-op: generate_survey
\* is entered only from that read and only when it found another state or no
\* row; the step taken on a completed or cancelled job changes no field of any
\* job, creates no row and no task, puts nothing on a queue, makes no model
\* call and leaves the worker idle
C8_FinishedJobIsNotRunAgain ==
    [][/\ (wk'.pc = "create" /\ wk.pc # "create")
            => /\ wk.pc = "pickup"
               /\ wk'.msg = wk.msg
               /\ ~(/\ RowExists(wk.msg.survey_record.id)
                    /\ Status(wk.msg.survey_record.id) \in {"completed", "cancelled"})
       /\ (/\ Worker \/ Execute
           /\ wk.pc = "pickup"
           /\ RowExists(wk.msg.survey_record.id)
           /\ Status(wk.msg.survey_record.id) \in {"completed", "cancelled"})
            => /\ rows' = rows
               /\ tasks' = tasks
               /\ queue' = queue
               /\ chatlog' = chatlog
               /\ wk'.pc = "idle"]_vars

\* the worker holds, handed out a second time, the message of a job whose
\* row is completed, and has yet to read the state of that job
C8_Witness ==
    /\ wk.pc = "pickup"
    /\ redelivered > 0
    /\ RowExists(wk.msg.survey_record.id)
    /\ Status(wk.msg.survey_record.id) = "completed"

ReadOps == {"get_survey", "get_survey_progress", "paper_survey_doc"}
\* a step of a read that gives its answer
ReadAnswer ==
    /\ Read \/ ReadCompleted
    /\ doc' = doc \/ doc'.pc = "idle"
    /\ prog' = prog \/ prog'.pc = "idle"

\* C9: a read of a job (details, progress or document) by a requester who is
\* not its owner, here one whose user is not the job's user, is answered as
\* not found and carries nothing of the job
C9_ReadsOnlyByOwner ==
    [][(/\ ReadAnswer
        /\ resp'.op \in ReadOps
        /\ RowExists(resp'.sid)
        /\ resp'.req.user # rows[resp'.sid].user_id)
        => /\ resp'.kind # "ok"
           /\ resp'.data = NoData]_vars

\* C10: a cancel or delete request by a requester who is not the owning
\* user/tenant pair changes neither the survey rows nor the tasks and is
\* answered as not found or failed
C10_CancelDeleteOnlyByOwner ==
    [][/\ \A req \in Requesters, sid \in SurveyIds :
            (/\ RowExists(sid)
             /\ req # Owner(sid)
             /\ (\/ cancel_survey_not_found(req, sid)
                 \/ cancel_survey_refused(req, sid)
                 \/ cancel_survey_get(req, sid)
                 \/ delete_survey_record(req, sid)
                 \/ delete_survey_record_failed(req, sid)))
            => /\ rows' = rows
               /\ tasks' = tasks
               /\ can' = can
               /\ resp'.req = req
               /\ resp'.kind \in {"not_found", "error"}
       /\ (cancel_survey_task \/ cancel_survey_write)
            => (RowExists(can.sid) => can.req = Owner(can.sid))]_vars

\* the executor is running generate_survey for this job, or the row says so
BeingProcessed(sid) ==
    \/ RowExists(sid) /\ Status(sid) = "processing"
    \/ wk.pc \in {"fetch", "summary", "synth", "update", "except"} /\ wk.msg.survey_record.id = sid

\* C11: a delete request by the owner for a job that is being processed
\* leaves the row in place and is answered with a failure
C11_DeleteOnlyWhenNotProcessing ==
    [][\A req \in Requesters, sid \in SurveyIds :
        (/\ RowExists(sid)
         /\ req = Owner(sid)
         /\ BeingProcessed(sid)
         /\ (\/ delete_survey_record(req, sid)
             \/ delete_survey_record_failed(req, sid)))
        => /\ rows' = rows
           /\ resp'.kind = "error"]_vars

\* C14: a row carries synthesized content only when its status is completed
C14_ContentOnlyWhenCompleted ==
    \A id \in SurveyIds :
        (RowExists(id) /\ rows[id].survey_content # EmptyContent)
        => Status(id) = "completed"

\* C15: the persisted progress of a job never decreases, except by the
\* write of the -1 sentinel that cancel_survey makes
C15_ProgressNonDecreasing ==
    [][\A id \in SurveyIds :
        (RowExists(id) /\ RowExists(id)' /\ rows'[id].progress < rows[id].progress)
        => /\ cancel_survey_write
           /\ can.sid = id
           /\ rows'[id].progress = -1]_vars

\* a cancellation has written the sentinel over the progress of a job that
\* the executor had created
C15_Witness ==
    /\ resp.op = "cancel_survey"
    /\ resp.kind = "ok"
    /\ RowExists(resp.sid)
    /\ rows[resp.sid].progress = -1
    /\ \E m \in delivered : m.survey_record.id = resp.sid


SearchOps == {"paper_search", "paper_search_with_keywords"}

\* the retrieval of a search yields nothing: no knowledge base, or the
\* backend raises, be it after papers were already collected
YieldsNothing(kb_ids, retrieval, lookup) ==
    \/ kb_ids = << >>
    \/ retrieval.kind = "raise"
    \/ /\ retrieval.kind = "ranks"
       /\ \E i \in 1..Len(retrieval.chunks) : lookup[retrieval.chunks[i].doc_id] = "raises"

\* C16: when the knowledge-base union is empty or the retrieval backend
\* raises, search_papers answers normally with no papers and the extracted
\* keywords, and the search record holds an empty paper list and count 0
C16_EmptyRetrievalKeepsKeywords ==
    [][\A kb_ids \in KbIdLists, retrieval \in Retrievals, lookup \in Lookups, id \in Uuids :
        (/\ srch.pc = "retrieve"
         /\ srch.op = "paper_search"
         /\ search_papers_retrieve(kb_ids, retrieval, lookup)
         /\ id = srch.search_record.id
         /\ YieldsNothing(kb_ids, retrieval, lookup))
        => /\ resp'.kind = "ok"
           /\ resp'.data.papers = << >>
           /\ resp'.data.keywords = srch.keywords
           /\ srecs'[id] # NoRow
           /\ srecs'[id].search_results = << >>
           /\ srecs'[id].result_count = 0]_vars

\* the answer half of C16 alone
C16_AnswerKeepsKeywords ==
    [][\A kb_ids \in KbIdLists, retrieval \in Retrievals, lookup \in Lookups :
        (/\ srch.pc = "retrieve"
         /\ srch.op = "paper_search"
         /\ search_papers_retrieve(kb_ids, retrieval, lookup)
         /\ YieldsNothing(kb_ids, retrieval, lookup))
        => /\ resp'.kind = "ok"
           /\ resp'.data.papers = << >>
           /\ resp'.data.keywords = srch.keywords]_vars

\* C17: every search record has result_count = number of stored papers,
\* and after a search has answered, the record of the id it returned holds
\* the returned paper list and its length
C17_ResultCountMatchesPapers ==
    /\ \A id \in Uuids :
        SearchRecordExists(id) => srecs[id].result_count = Len(srecs[id].search_results)
    /\ (resp.op \in SearchOps /\ resp.kind = "ok")
        => /\ SearchRecordExists(resp.sid)
           /\ srecs[resp.sid].search_results = resp.data.papers
           /\ srecs[resp.sid].result_count = Len(resp.data.papers)

\* C18: the papers of a search have pairwise different document ids, each is
\* built from the first chunk of its document in the retrieval result, and
\* they stand in the rank order of those first chunks
C18_OnePaperPerDocument ==
    [][\A kb_ids \in KbIdLists, retrieval \in Retrievals, lookup \in Lookups :
        (/\ srch.pc = "retrieve"
         /\ retrieval.kind = "ranks"
         /\ search_papers_retrieve(kb_ids, retrieval, lookup))
        => LET chunks == retrieval.chunks
               FirstRank(d) == CHOOSE r \in 1..Len(chunks) :
                                /\ chunks[r].doc_id = d
                                /\ \A q \in 1..(r - 1) : chunks[q].doc_id # d IN
           /\ \A i, j \in 1..Len(resp'.data.papers) :
                i # j => resp'.data.papers[i].doc_id # resp'.data.papers[j].doc_id
           /\ \A i \in 1..Len(resp'.data.papers) :
                /\ \E r \in 1..Len(chunks) : chunks[r].doc_id = resp'.data.papers[i].doc_id
                /\ resp'.data.papers[i].abstract =
                        chunks[FirstRank(resp'.data.papers[i].doc_id)].content_with_weight
                /\ resp'.data.papers[i].similarity =
                        chunks[FirstRank(resp'.data.papers[i].doc_id)].similarity
           /\ \A i, j \in 1..Len(resp'.data.papers) :
                i < j => FirstRank(resp'.data.papers[i].doc_id)
                            < FirstRank(resp'.data.papers[j].doc_id)]_vars

\* a search has answered with two papers, the second built from the chunk of
\* rank 3: the chunk of rank 2 belonged to the document of rank 1
C18_Witness ==
    /\ resp.op \in SearchOps
    /\ resp.kind = "ok"
    /\ Len(resp.data.papers) = 2
    /\ resp.data.papers[1].doc_id # resp.data.papers[2].doc_id
    /\ resp.data.papers[1].abstract = <<"x">>
    /\ resp.data.papers[2].abstract = <<"x", "x", "x">>

\* C19: the number of keywords the prompt asks for, and the N of the
\* fallback, is k for 1 < k <= 12 and 5 for every other k
C19_EffectiveKeywordCount ==
    (call.fn = "extract_keywords" /\ call.result # NoData)
    => LET k == call.keywords_num
           N == IF 1 < k /\ k <= 12 THEN k ELSE 5 IN
        /\ call.prompt.keywords_num = N
        /\ call.outcome.kind = "raise"
            => Len(call.result.keyword_en) =
                    IF Len(Split(call.question)) < N THEN Len(Split(call.question)) ELSE N

\* extract_keywords has run with a count of 13 and a failing model
C19_Witness ==
    /\ call.fn = "extract_keywords"
    /\ call.result # NoData
    /\ call.keywords_num = 13
    /\ call.outcome.kind = "raise"
    /\ Len(Split(call.question)) = 3

\* C20: extract_keywords never raises and returns a bundle of the five
\* fields for every question and model outcome; when the model call fails
\* both keyword lists are the first N whitespace-separated tokens of the
\* question (all of them when there are fewer) and the time range is empty
C20_ExtractIsTotal ==
    (call.fn = "extract_keywords" /\ call.result # NoData)
    => /\ call.result # Raised
       /\ DOMAIN call.result = BundleFields
       /\ call.outcome.kind = "raise"
            => LET k == call.keywords_num
                   N == IF 1 < k /\ k <= 12 THEN k ELSE 5
                   tokens == Split(call.question)
                   n == IF Len(tokens) < N THEN Len(tokens) ELSE N IN
                /\ Len(call.result.keyword_en) = n
                /\ \A i \in 1..n : call.result.keyword_en[i] = tokens[i]
                /\ call.result.keyword_cn = call.result.keyword_en
                /\ call.result.time_range = << >>

\* extract_keywords has run on an answer that is JSON but no object
C20_Witness ==
    /\ call.fn = "extract_keywords"
    /\ call.result # NoData
    /\ call.outcome.kind = "not_object"
    /\ call.keywords_num = 2
    /\ Len(Split(call.question)) = 3
    /\ Len(call.result.keyword_en) = 2

\* C12: the synthesis prompt binds citation index i to the i-th submitted
\* paper, and the paper list a progress response or a rendered document of
\* the completed job resolves citations with is the submitted list, in its
\* order
C12_CitationBindingFrozen ==
    [][/\ wk.pc = "synth"
            => /\ Len(SurveyPrompt(wk.paper_summaries)) = Len(wk.msg.papers)
               /\ \A i \in 1..Len(wk.msg.papers) :
                    /\ SurveyPrompt(wk.paper_summaries)[i].index = i
                    /\ SurveyPrompt(wk.paper_summaries)[i].title = wk.msg.papers[i].title
       /\ \A m \in delivered :
            (/\ ReadAnswer
             /\ resp'.op \in {"get_survey_progress", "paper_survey_doc"}
             /\ resp'.kind = "ok"
             /\ resp'.sid = m.survey_record.id
             /\ RowExists(resp'.sid)
             /\ rows[resp'.sid].status = "completed")
            => resp'.data.papers = m.papers]_vars

\* the prompt half of C12 alone
C12_PromptBinding ==
    wk.pc = "synth"
    => /\ Len(SurveyPrompt(wk.paper_summaries)) = Len(wk.msg.papers)
       /\ \A i \in 1..Len(wk.msg.papers) :
            /\ SurveyPrompt(wk.paper_summaries)[i].index = i
            /\ SurveyPrompt(wk.paper_summaries)[i].title = wk.msg.papers[i].title

\* C13: every entry of the rendered reference section carries an index in
\* 1..N that the content cites and the title of the paper at that position;
\* the indices ascend strictly (so each appears once), there are at most N
\* entries, and an index outside 1..N gives no entry and no failure
C13_ReferenceEntries ==
    (call.fn = "generate_word_document" /\ call.result # NoData)
    => LET entries == call.result.references.entries
           N == Len(call.papers) IN
        /\ call.result.kind = "docx"
        /\ Len(entries) <= N
        /\ \A i \in 1..Len(entries) :
            /\ entries[i].index \in 1..N
            /\ entries[i].title = call.papers[entries[i].index].title
            /\ \E j \in 1..Len(call.content) : call.content[j] = Cite(entries[i].index)
        /\ \A i, j \in 1..Len(entries) : i < j => entries[i].index < entries[j].index

\* a text citing paper 2 twice, then paper 1 and an index past the list has
\* been rendered against two papers, with two reference entries
C13_Witness ==
    /\ call.fn = "generate_word_document"
    /\ call.result # NoData
    /\ Len(call.papers) = 2
    /\ call.papers[1] # call.papers[2]
    /\ call.content = <<Cite(2), Cite(3), Cite(1)>>
    /\ Len(call.result.references.entries) = 2

\* C21: a summary call that fails gives the title-and-abstract fallback as
\* the brief of that paper and nothing else: the loop goes on, the row is
\* not touched, the executor reaches the synthesis call with one brief per
\* paper in paper order, and generate_survey marks a job failed only from there
C21_SummaryFailureDoesNotAbort ==
    [][/\ generate_survey_summary
            => /\ rows' = rows
               /\ wk'.pc \in {"summary", "synth"}
               /\ Len(wk'.paper_summaries) = Len(wk.paper_summaries) + 1
       /\ wk.pc = "synth"
            => /\ Len(wk.paper_summaries) = Len(wk.msg.papers)
               /\ \A k \in 1..Len(wk.msg.papers) :
                    /\ wk.paper_summaries[k].title = wk.msg.papers[k].title
                    /\ wk.paper_summaries[k].summary.title = wk.msg.papers[k].title
                    /\ wk.paper_summaries[k].summary.kind = "fallback"
                        => wk.paper_summaries[k].summary.abstract = wk.msg.papers[k].abstract
       /\ \A id \in SurveyIds :
            (/\ Execute
             /\ RowExists(id)
             /\ rows'[id] # NoRow
             /\ rows[id].status # "failed"
             /\ rows'[id].status = "failed")
            => wk.pc = "except"
       /\ wk'.pc = "except" /\ wk.pc # "except" => wk.pc = "synth"]_vars

\* the executor stands before the synthesis call of a job of two papers: the
\* summary call of the first paper succeeded, that of the second failed
C21_Witness ==
    /\ wk.pc = "synth"
    /\ Len(wk.msg.papers) = 2
    /\ Len(wk.paper_summaries) = 2
    /\ wk.paper_summaries[1].summary.kind = "llm"
    /\ wk.paper_summaries[2].summary.kind = "fallback"

\* C22: every search that is answered with a search_record_id has a persisted
\* search record of that id: it exists once the request has been taken, with
\* the keywords of the first update and still no results; the answer step
\* writes the paper list and its count on it and nothing else; no other step
\* writes the table.
C22_SearchRecordLifecycle ==
    [][\A id \in Uuids :
        /\ (srch.pc = "idle" /\ srch'.pc = "retrieve" /\ srch'.search_record.id = id)
            => /\ srecs'[id] # NoRow
               /\ srecs'[id].keywords = srch'.keywords
               /\ srecs'[id].search_results = << >>
               /\ srecs'[id].result_count = 0
        /\ (srch.pc = "retrieve" /\ srch'.pc = "idle" /\ srch.search_record.id = id)
            => /\ srecs[id] # NoRow
               /\ srecs'[id] = [srecs[id] EXCEPT
                                  !.search_results = resp'.data.papers,
                                  !.result_count = Len(resp'.data.papers)]
        /\ srch'.pc = srch.pc => srecs'[id] = srecs[id]]_vars

\* C23: a job that has reached completed or failed stays in that state under
\* every interleaving with a cancel request: no step of cancel_survey changes
\* the status of a row that is completed or failed.
C23_TerminalSurvivesCancel ==
    [][\A id \in SurveyIds :
        (/\ Cancel
         /\ RowExists(id)
         /\ rows[id].status \in {"completed", "failed"}
         /\ rows'[id] # NoRow)
        => rows'[id].status = rows[id].status]_vars

\* C24: the stages of one run follow each other strictly. No model call is
\* made before every paper has been through the fetch loop; the summary calls
\* are made one per paper in the submitted order; the synthesis call comes
\* last, after all the summary calls, with one brief per paper, and at most
\* once; a run that completes has made it, and a run whose synthesis stage
\* raises before the call ends without one.
C24_CallsInOrder ==
    /\ wk.pc \in {"create", "fetch"} => chatlog = << >>
    /\ wk.pc \in {"summary", "synth"}
        => /\ Len(wk.updated_papers) = Len(wk.msg.papers)
           /\ chatlog = [k \in 1..Len(wk.paper_summaries) |-> SummaryCall(wk.msg.papers[k])]
           /\ wk.pc = "synth" => Len(chatlog) = Len(wk.msg.papers)
    /\ wk.pc \in {"update", "except"}
        => /\ Len(wk.paper_summaries) = Len(wk.msg.papers)
           /\ \A k \in 1..Len(wk.msg.papers) : chatlog[k] = SummaryCall(wk.msg.papers[k])
           /\ Len(chatlog) \in {Len(wk.msg.papers), Len(wk.msg.papers) + 1}
           /\ wk.pc = "update"
                => chatlog = Append([k \in 1..Len(wk.msg.papers) |-> SummaryCall(wk.msg.papers[k])],
                                    SynthesisCall(SurveyPrompt(wk.paper_summaries)))
    /\ \A k \in 1..Len(chatlog) :
        chatlog[k].stage = "synthesis"
            => /\ k = Len(chatlog)
               /\ Len(chatlog[k].prompt) = k - 1
               /\ \A j \in 1..(k - 1) :
                    /\ chatlog[j].stage = "summary"
                    /\ chatlog[k].prompt[j].title = chatlog[j].title

C24_StagesInSequence ==
    [][/\ C24_CallsInOrder
       /\ C24_CallsInOrder'
       /\ generate_survey_fetch => chatlog' = << >>
       /\ generate_survey_synthesis
            => /\ Len(chatlog) = Len(wk.msg.papers)
               /\ chatlog' = Append(chatlog, SynthesisCall(SurveyPrompt(wk.paper_summaries)))
       /\ generate_survey_completed
            => /\ chatlog' = chatlog
               /\ chatlog[Len(chatlog)] = SynthesisCall(SurveyPrompt(wk.paper_summaries))
       /\ generate_survey_synthesis_raises
            => \/ chatlog' = chatlog
               \/ chatlog' = Append(chatlog, SynthesisCall(SurveyPrompt(wk.paper_summaries)))
       /\ generate_survey_failed \/ worker_records_failed => chatlog' = chatlog]_vars

C24_Witness ==
    /\ wk.pc = "idle"
    /\ Len(chatlog) = 3
    /\ chatlog[1] = [stage |-> "summary", title |-> "B"]
    /\ chatlog[2] = [stage |-> "summary", title |-> "A"]
    /\ chatlog[3].stage = "synthesis"
    /\ \E id \in SurveyIds : RowExists(id) /\ rows[id].status = "completed"

\* C25: a failing metadata lookup (document not found, or the lookup raising)
\* costs only its own candidate: when the retrieval came back with ranks,
\* every retrieved document whose lookup succeeds has its paper in the
\* answer, and no paper stands for a document whose lookup failed.
C25_LookupFailureDropsOneCandidate ==
    [][\A kb_ids \in KbIdLists, retrieval \in Retrievals, lookup \in Lookups :
        (/\ srch.pc = "retrieve"
         /\ kb_ids # << >>
         /\ retrieval.kind = "ranks"
         /\ search_papers_retrieve(kb_ids, retrieval, lookup))
        => \A d \in DocIds :
            (\E r \in 1..Len(retrieval.chunks) : retrieval.chunks[r].doc_id = d)
            => (lookup[d] = "found"
                  <=> \E i \in 1..Len(resp'.data.papers) : resp'.data.papers[i].doc_id = d)]_vars

\* C26: the rendered body holds no raw citation token: every ##n$$ of the
\* content, whatever the kind of its line, stands in the body as its [n]
\* marker, and its number is among the collected indices.
C26_NoRawCitationInBody ==
    (call.fn = "generate_word_document" /\ call.result # NoData)
    => LET body == call.result.body
           Runs(kind) == { <<p, i>> \in (1..Len(body)) \X (1..MaxContentLen) :
                             /\ i <= Len(body[p].runs)
                             /\ body[p].runs[i].kind = kind } IN
        /\ Runs("cite") = {}
        /\ \A j \in 1..Len(call.content) :
            call.content[j].kind = "cite"
            => /\ call.content[j].n \in CitedIndices(call.content)
               /\ \E r \in Runs("marker") : body[r[1]].runs[r[2]].n = call.content[j].n

\* C27: _parse_keyword_response gives a bundle of exactly the five fields for
\* every answer of the model. For an answer that decodes as a JSON object
\* each field is the object's value, the empty list when the object has no
\* such field; for an answer that does not decode each field holds the
\* trimmed non-empty pieces of its "field": [...] fragment, the empty list
\* when there is no fragment.
C27_ParseTwoTierTotal ==
    (call.fn = "extract_keywords" /\ call.result # NoData /\ call.outcome.kind # "raise")
    => /\ call.parsed # Raised
       /\ DOMAIN call.parsed = BundleFields
       /\ call.outcome.kind = "object"
            => \A f \in BundleFields :
                call.parsed[f] = IF f \in DOMAIN call.outcome.value
                                 THEN call.outcome.value[f] ELSE << >>
       /\ call.outcome.kind = "text"
            => \A f \in BundleFields :
                IF f \in DOMAIN call.outcome.fragments
                THEN LET raw == call.outcome.fragments[f] IN
                     /\ Len(call.parsed[f])
                            = Cardinality({ i \in 1..Len(raw) : raw[i] # <<Space>> })
                     /\ \A i \in 1..Len(call.parsed[f]) : call.parsed[f][i] = <<"x">>
                ELSE call.parsed[f] = << >>

\* C28: when the caller supplies no query count, the prompt asks for as many
\* search queries as the effective keyword count: k for 1 < k <= 12, else 5.
C28_QueryCountDefaultsToKeywordCount ==
    (/\ call.fn = "extract_keywords"
     /\ call.result # NoData
     /\ call.supplied_query_num = << >>)
    => LET k == call.keywords_num IN
       call.prompt.query_num = IF 1 < k /\ k <= 12 THEN k ELSE 5

\* C29: in every reachable state the progress of a job is the sentinel -1
\* exactly when the job is cancelled, and lies between 0 and 1 (0 and 100
\* percent) otherwise.
C29_ProgressSentinelIffCancelled ==
    \A id \in SurveyIds :
        RowExists(id)
        => /\ rows[id].progress = 0 - 1 <=> rows[id].status = "cancelled"
           /\ rows[id].status # "cancelled" => rows[id].progress \in 0..100

\* C30: every message on a queue is the work item of a job whose row exists:
\* no run of submits, cancels and deletes leaves a queued item without its row.
C30_QueuedItemHasRow ==
    \A priority \in DOMAIN queue :
        \A i \in 1..Len(queue[priority]) :
            RowExists(queue[priority][i].survey_record.id)


====
